---- MODULE Spec2Model ----
(***************************************************************************)
(* Scheduling loop and cycle runner of the YouTube horror automation.      *)
(*                                                                         *)
(*   scheduler.py        AutomationScheduler (start, job_wrapper) on top   *)
(*                       of APScheduler's BlockingScheduler with an        *)
(*                       IntervalTrigger and max_instances=1               *)
(*   main.py             run_automation_cycle                              *)
(*   video_pipeline.py   VideoPipeline.create_complete_video               *)
(*   youtube_uploader.py YouTubeUploader.upload_video, _upload_thumbnail   *)
(*                                                                         *)
(* Time is counted in minutes.  The immediate first cycle runs in the main *)
(* thread (start calls job_wrapper itself); timed cycles run in a worker   *)
(* thread of the scheduler's executor while the main thread sits in the    *)
(* scheduler's loop.                                                       *)
(***************************************************************************)
EXTENDS Integers, Sequences, FiniteSets, TLC

VARIABLES
    schedState,       \* position of AutomationScheduler.start
    run_immediately,  \* argument of start
    interval_minutes, \* self.interval_minutes
    now,              \* the clock, in minutes since process start
    next_run_time,    \* next fire time of the interval job (-1: not registered)
    total_runs,       \* self.total_runs
    successful_runs,  \* self.successful_runs
    failed_runs,      \* self.failed_runs
    jobs,             \* executions of job_wrapper in flight: cycle number -> frame
    signalled,        \* a KeyboardInterrupt has been delivered to the main thread
    lastReturn,       \* time the latest job_wrapper returned (-1: none yet)
    outcomes          \* how the job_wrapper executions that returned ended, in order

vars == <<schedState, run_immediately, interval_minutes, now, next_run_time,
          total_runs, successful_runs, failed_runs, jobs, signalled,
          lastReturn, outcomes>>

\* ---------------------------------------------------------------- bounds
MaxInterval == 2
MaxTime == 4
MaxRuns == 3

Intervals == 1..MaxInterval

\* ------------------------------------------------------ program constants
\* max_instances=1 of the interval job
MaxInstances == 1
\* random.randint(2, 5)
MinMainDuration == 2
MaxMainDuration == 5
\* duration = 1 for shorts
ShortDuration == 1
\* word_count = duration_minutes * 150
WordsPerMinute == 150

VideoIds == {"abc123"}
Titles == {"T1"}

NoResult == [status |-> "none"]

\* ------------------------------------------------------------ pure parts
\* video_url = f"https://www.youtube.com/watch?v={video_id}"
VideoUrl(video_id) == <<"https://www.youtube.com/watch?v=", video_id>>

\* the dict upload_video returns
UploadResult(video_id, title) ==
    [video_id |-> video_id, video_url |-> VideoUrl(video_id),
     title |-> title, status |-> "success"]

\* a success result that lost the upload's identifiers
SuccessResultNoId(upload_result, video_type, duration) ==
    [status |-> "success",
     title |-> upload_result.title,
     video_type |-> video_type,
     duration_minutes |-> duration]

\* the dict run_automation_cycle returns after the upload
SuccessResult(upload_result, video_type, duration) ==
    [status |-> "success",
     video_id |-> upload_result.video_id,
     video_url |-> upload_result.video_url,
     title |-> upload_result.title,
     video_type |-> video_type,
     duration_minutes |-> duration]

\* the dict run_automation_cycle returns from its except branch
FailedResult(e) == [status |-> "failed", error |-> e]

\* if result and result.get('status') == 'success'
IsSuccess(result) == result.status = "success"

\* the frame of one job_wrapper execution at its entry
NewJob(thread) ==
    [pc |-> "banner", thread |-> thread, start |-> now, prev_end |-> lastReturn,
     base |-> successful_runs + failed_runs,
     video_type |-> "none", duration |-> 0,
     script_type |-> "none", script_duration |-> 0, word_count |-> 0,
     assembly_type |-> "none",
     calls |-> <<>>, title |-> "none", error |-> "none",
     video_id |-> "none", thumb_exists |-> "unknown", attach |-> "none",
     attach_target |-> "none",
     raised |-> FALSE, result |-> NoResult]

\* no job_wrapper execution in flight
NoJobs == [j \in {} |-> NoResult]

\* a trigger that fires as soon as it is created
FirstFireTimeAtOnce(t, interval) == t

\* IntervalTrigger(minutes=interval): first fire time one interval after creation
FirstFireTime(t, interval) == t + interval

\* the executor's count of running instances of the interval job
Instances == Cardinality({j \in DOMAIN jobs : jobs[j].thread = "worker"})

\* an executor that accepts a run whatever is already running
ExecutorAcceptsAny == TRUE

\* the executor accepts a run of the job only below max_instances
ExecutorAccepts == Instances < MaxInstances

Init ==
    /\ schedState = "init"
    /\ run_immediately \in BOOLEAN
    /\ interval_minutes \in Intervals
    /\ now = 0
    /\ next_run_time = -1
    /\ total_runs = 0
    /\ successful_runs = 0
    /\ failed_runs = 0
    /\ jobs = NoJobs
    /\ signalled = FALSE
    /\ lastReturn = -1
    /\ outcomes = <<>>

\* ------------------------------------------------------- frame updates
WithJob(j, frame) == [i \in DOMAIN jobs \cup {j} |-> IF i = j THEN frame ELSE jobs[i]]

WithoutJob(j) == [i \in DOMAIN jobs \ {j} |-> jobs[i]]

\* one more fallible step of the cycle has been taken, and how it ended
Called(job, what, ok) ==
    [job EXCEPT !.calls = Append(@, [call |-> what, ok |-> ok])]

\* an upload call placed outside the try block: its exception would leave
\* run_automation_cycle
FailOutsideTry(job, e) ==
    IF e = "insert"
    THEN [job EXCEPT !.pc = "returned", !.raised = TRUE, !.error = e]
    ELSE [job EXCEPT !.pc = "handler", !.error = e]

\* an exception raised inside the try block of run_automation_cycle lands in
\* its except branch with the cause e
Fail(job, e) == [job EXCEPT !.pc = "handler", !.error = e]

\* how a finished job_wrapper execution ended
Outcome(job) ==
    IF job.raised THEN "raised" ELSE job.result.status

\* a pipeline that asks for the thumbnail before it assembles the video
NextStageSwapped(stage) ==
    CASE stage = "script" -> "audio"
      [] stage = "audio" -> "thumbnail"
      [] stage = "thumbnail" -> "video"
      [] stage = "video" -> "upload"

\* the stage that follows a stage of create_complete_video
NextStage(stage) ==
    CASE stage = "script" -> "audio"
      [] stage = "audio" -> "video"
      [] stage = "video" -> "thumbnail"
      [] stage = "thumbnail" -> "upload"

\* a pipeline that calls a failed stage again
StageFailedRetry(job, stage) == [job EXCEPT !.pc = stage]

\* a pipeline that swallows a stage's exception and goes on
StageFailedSwallowed(job, stage) == [job EXCEPT !.pc = NextStage(stage)]

\* create_complete_video has no handler of its own: a stage's exception
\* leaves it at once and reaches run_automation_cycle
StageFailed(job, stage) == Fail(job, stage)

\* an attach call that is given the title in place of the video id
AttachTargetTitle(job) == job.title

\* self._upload_thumbnail(video_id, thumbnail_path): the videoId of the
\* attach call
AttachTarget(job) == job.video_id

\* an _upload_thumbnail without its try/except
UploadThumbnailPropagates(job, ok) ==
    IF ok THEN [Called(job, "attach", ok) EXCEPT
                   !.attach = "ok", !.attach_target = AttachTarget(job)]
    ELSE Fail([Called(job, "attach", ok) EXCEPT
                  !.attach = "failed", !.attach_target = AttachTarget(job)],
              "attach")

\* _upload_thumbnail: thumbnails().set(...).execute() inside try/except
\* Exception; a failure is printed and swallowed
UploadThumbnail(job, ok) ==
    [Called(job, "attach", ok) EXCEPT !.attach = IF ok THEN "ok" ELSE "failed",
                                      !.attach_target = AttachTarget(job)]

\* upload_video returns its dict and run_automation_cycle returns the
\* success result built from it
FinishUpload(job) ==
    [job EXCEPT !.pc = "returned",
                !.result = SuccessResult(UploadResult(job.video_id, job.title),
                                         job.video_type, job.duration)]

\* a job_wrapper without its except branch
JobWrapperLetsThrough == FALSE

\* except Exception in job_wrapper
JobWrapperCatches == TRUE

\* a job_wrapper that takes every returned result for a success
CountsAsSuccessAny(job) == ~job.raised

\* job_wrapper's branch: successful_runs += 1 or failed_runs += 1
CountsAsSuccess(job) == ~job.raised /\ IsSuccess(job.result)

\* self.successful_runs after job_wrapper counted the outcome
NewSuccessful(job) ==
    IF CountsAsSuccess(job) THEN successful_runs + 1 ELSE successful_runs

\* an except branch that forgets to count
NewFailedUncounted(job) ==
    IF job.raised \/ IsSuccess(job.result) THEN failed_runs ELSE failed_runs + 1

\* self.failed_runs after job_wrapper counted the outcome: the else branch
\* and the except branch both add one
NewFailed(job) ==
    IF CountsAsSuccess(job) THEN failed_runs ELSE failed_runs + 1

\* the interval job is due and the scheduler's loop is there to process it
TickDue == schedState = "loop" /\ next_run_time = now

\* ------------------------------------------------ AutomationScheduler.start
\* a start that registers the interval job before it calls the first cycle
StartImmediateRegistersFirst ==
    /\ schedState = "init"
    /\ run_immediately
    /\ schedState' = "immediate"
    /\ next_run_time' = FirstFireTime(now, interval_minutes)
    /\ total_runs' = total_runs + 1
    /\ jobs' = WithJob(total_runs + 1, NewJob("main"))
    /\ UNCHANGED <<run_immediately, interval_minutes, now,
                   successful_runs, failed_runs, signalled, lastReturn, outcomes>>

\* start(run_immediately=True): job_wrapper is called in the main thread
StartImmediate ==
    /\ schedState = "init"
    /\ run_immediately
    /\ schedState' = "immediate"
    /\ total_runs' = total_runs + 1
    /\ jobs' = WithJob(total_runs + 1, NewJob("main"))
    /\ UNCHANGED <<run_immediately, interval_minutes, now, next_run_time,
                   successful_runs, failed_runs, signalled, lastReturn, outcomes>>

\* start(run_immediately=False): add_job and scheduler.start()
StartScheduled ==
    /\ schedState = "init"
    /\ ~run_immediately
    /\ schedState' = "loop"
    /\ next_run_time' = FirstFireTime(now, interval_minutes)
    /\ UNCHANGED <<run_immediately, interval_minutes, now, total_runs,
                   successful_runs, failed_runs, jobs, signalled, lastReturn,
                   outcomes>>

\* ------------------------------------------------- the scheduler's loop
\* a minute passes; a due fire time is processed before the clock moves on
AdvanceTime ==
    /\ schedState \in {"immediate", "loop", "shutting"}
    /\ ~TickDue
    /\ now < MaxTime
    /\ now' = now + 1
    /\ UNCHANGED <<schedState, run_immediately, interval_minutes, next_run_time,
                   total_runs, successful_runs, failed_runs, jobs, signalled,
                   lastReturn, outcomes>>

\* the interval job fires and the executor accepts it: job_wrapper starts in
\* a worker thread
TimerFire ==
    /\ TickDue
    /\ ExecutorAccepts
    /\ total_runs < MaxRuns
    /\ next_run_time' = next_run_time + interval_minutes
    /\ total_runs' = total_runs + 1
    /\ jobs' = WithJob(total_runs + 1, NewJob("worker"))
    /\ UNCHANGED <<schedState, run_immediately, interval_minutes, now,
                   successful_runs, failed_runs, signalled, lastReturn, outcomes>>

\* a scheduler that keeps a fire time it could not serve and tries it again a
\* minute later
TimerSkipRetries ==
    /\ TickDue
    /\ ~ExecutorAccepts
    /\ next_run_time' = now + 1
    /\ UNCHANGED <<schedState, run_immediately, interval_minutes, now,
                   total_runs, successful_runs, failed_runs, jobs, signalled,
                   lastReturn, outcomes>>

\* the interval job fires while max_instances executions are running: the
\* run is skipped
TimerSkip ==
    /\ TickDue
    /\ ~ExecutorAccepts
    /\ next_run_time' = next_run_time + interval_minutes
    /\ UNCHANGED <<schedState, run_immediately, interval_minutes, now,
                   total_runs, successful_runs, failed_runs, jobs, signalled,
                   lastReturn, outcomes>>

\* ------------------------------------------------- run_automation_cycle
Rest == <<schedState, run_immediately, interval_minutes, now, next_run_time,
          total_runs, successful_runs, failed_runs, signalled, lastReturn,
          outcomes>>

At(j, pc) == j \in DOMAIN jobs /\ jobs[j].pc = pc

\* the banner printed before the try block: an exception here is the only
\* one that leaves run_automation_cycle
CycleEnter(j) ==
    /\ At(j, "banner")
    /\ \E ok \in BOOLEAN :
          jobs' = WithJob(j, IF ok THEN [jobs[j] EXCEPT !.pc = "init_pipeline"]
                                   ELSE [jobs[j] EXCEPT !.pc = "returned",
                                                        !.raised = TRUE])
    /\ UNCHANGED Rest

\* pipeline = VideoPipeline(output_dir='outputs')
InitPipeline(j) ==
    /\ At(j, "init_pipeline")
    /\ \E ok \in BOOLEAN :
          LET job == Called(jobs[j], "init_pipeline", ok)
          IN jobs' = WithJob(j, IF ok THEN [job EXCEPT !.pc = "init_uploader"]
                                      ELSE Fail(job, "init_pipeline"))
    /\ UNCHANGED Rest

\* a cycle that goes on to the generation with an uploader that failed to
\* initialise
InitUploaderDeferred(j) ==
    /\ At(j, "init_uploader")
    /\ \E ok \in BOOLEAN :
          jobs' = WithJob(j, [Called(jobs[j], "init_uploader", ok)
                                 EXCEPT !.pc = "choose"])
    /\ UNCHANGED Rest

\* uploader = YouTubeUploader(): credentials loaded and refreshed, client built
InitUploader(j) ==
    /\ At(j, "init_uploader")
    /\ \E ok \in BOOLEAN :
          LET job == Called(jobs[j], "init_uploader", ok)
          IN jobs' = WithJob(j, IF ok THEN [job EXCEPT !.pc = "choose"]
                                      ELSE Fail(job, "init_uploader"))
    /\ UNCHANGED Rest

\* video_type = 'main' if random.random() < 0.7 else 'short'; duration
ChooseMain(j) ==
    /\ At(j, "choose")
    /\ \E d \in MinMainDuration..MaxMainDuration :
          jobs' = WithJob(j, [jobs[j] EXCEPT !.pc = "script",
                                             !.video_type = "main",
                                             !.duration = d])
    /\ UNCHANGED Rest

ChooseShort(j) ==
    /\ At(j, "choose")
    /\ jobs' = WithJob(j, [jobs[j] EXCEPT !.pc = "script",
                                          !.video_type = "short",
                                          !.duration = ShortDuration])
    /\ UNCHANGED Rest

\* ------------------------------------ VideoPipeline.create_complete_video
\* word_count of generate_horror_script's prompt (0: the short prompt has none)
WordCount(video_type, duration_minutes) ==
    IF video_type = "short" THEN 0 ELSE duration_minutes * WordsPerMinute

\* the arguments create_complete_video hands to generate_horror_script
ScriptType(job) == job.video_type

ScriptDuration(job) == job.duration

\* a call of create_video_with_ffmpeg that leaves video_type to its default
AssemblyTypeDefault(job) == "main"

\* the video_type create_complete_video hands to create_video_with_ffmpeg
AssemblyType(job) == job.video_type

\* Step 1: script = self.generate_horror_script(video_type, duration_minutes)
GenerateScript(j) ==
    /\ At(j, "script")
    /\ LET job == [jobs[j] EXCEPT
                      !.script_type = ScriptType(jobs[j]),
                      !.script_duration = ScriptDuration(jobs[j]),
                      !.word_count = WordCount(ScriptType(jobs[j]),
                                               ScriptDuration(jobs[j]))]
       IN \/ \E t \in Titles :
                jobs' = WithJob(j, [Called(job, "script", TRUE) EXCEPT
                                       !.pc = NextStage("script"), !.title = t])
          \/ jobs' = WithJob(j, StageFailed(Called(job, "script", FALSE), "script"))
    /\ UNCHANGED Rest

\* Step 2: audio_path = self.generate_audio(script['narration'], base_filename)
GenerateAudio(j) ==
    /\ At(j, "audio")
    /\ \E ok \in BOOLEAN :
          LET job == Called(jobs[j], "audio", ok)
          IN jobs' = WithJob(j, IF ok THEN [job EXCEPT !.pc = NextStage("audio")]
                                      ELSE StageFailed(job, "audio"))
    /\ UNCHANGED Rest

\* Step 3: video_path = self.create_video_with_ffmpeg(audio_path, video_type, ...)
CreateVideo(j) ==
    /\ At(j, "video")
    /\ \E ok \in BOOLEAN :
          LET job == Called([jobs[j] EXCEPT !.assembly_type = AssemblyType(jobs[j])],
                            "video", ok)
          IN jobs' = WithJob(j, IF ok THEN [job EXCEPT !.pc = NextStage("video")]
                                      ELSE StageFailed(job, "video"))
    /\ UNCHANGED Rest

\* Step 4: thumbnail_path = self.generate_thumbnail(script['title'], ...);
\* the video data is returned to run_automation_cycle
GenerateThumbnail(j) ==
    /\ At(j, "thumbnail")
    /\ \E ok \in BOOLEAN :
          LET job == Called(jobs[j], "thumbnail", ok)
          IN jobs' = WithJob(j, IF ok THEN [job EXCEPT !.pc = NextStage("thumbnail")]
                                      ELSE StageFailed(job, "thumbnail"))
    /\ UNCHANGED Rest

\* ------------------------------------------- YouTubeUploader.upload_video
\* os.path.exists(video_path), then videos().insert(...).execute()
VideosInsert(j) ==
    /\ At(j, "upload")
    /\ \/ jobs' = WithJob(j, Fail(Called(jobs[j], "video_exists", FALSE),
                                  "video_exists"))
       \/ LET job == Called(jobs[j], "video_exists", TRUE)
          IN \/ jobs' = WithJob(j, Fail(Called(job, "insert", FALSE), "insert"))
             \/ \E id \in VideoIds :
                   jobs' = WithJob(j, [Called(job, "insert", TRUE) EXCEPT
                                          !.pc = "thumb", !.video_id = id])
    /\ UNCHANGED Rest

\* thumbnail_path and os.path.exists(thumbnail_path): _upload_thumbnail
ThumbnailAttach(j) ==
    /\ At(j, "thumb")
    /\ \E ok \in BOOLEAN :
          LET job == UploadThumbnail([jobs[j] EXCEPT !.thumb_exists = "yes"], ok)
          IN jobs' = WithJob(j, IF job.pc = "thumb" THEN FinishUpload(job) ELSE job)
    /\ UNCHANGED Rest

\* the thumbnail file is not there: no attach call
ThumbnailSkip(j) ==
    /\ At(j, "thumb")
    /\ jobs' = WithJob(j, FinishUpload([jobs[j] EXCEPT !.thumb_exists = "no",
                                                     !.attach = "skipped"]))
    /\ UNCHANGED Rest

\* a cycle runner that counts its own failure
HandlerCounting(j) ==
    /\ At(j, "handler")
    /\ jobs' = WithJob(j, [jobs[j] EXCEPT !.pc = "returned",
                                          !.result = FailedResult(jobs[j].error)])
    /\ failed_runs' = failed_runs + 1
    /\ UNCHANGED <<schedState, run_immediately, interval_minutes, now,
                   next_run_time, total_runs, successful_runs, signalled,
                   lastReturn, outcomes>>

\* except Exception as e: return {'status': 'failed', 'error': str(e), ...}
Handler(j) ==
    /\ At(j, "handler")
    /\ jobs' = WithJob(j, [jobs[j] EXCEPT !.pc = "returned",
                                          !.result = FailedResult(jobs[j].error)])
    /\ UNCHANGED Rest

\* ------------------------------------------ AutomationScheduler.job_wrapper
\* the call of run_automation_cycle is over: count the outcome.  An exception
\* that job_wrapper did not catch would leave start in the main thread, and
\* would be logged by the executor in a worker thread.
Record(j) ==
    /\ At(j, "returned")
    /\ IF jobs[j].raised /\ ~JobWrapperCatches
       THEN /\ UNCHANGED <<successful_runs, failed_runs>>
            /\ IF jobs[j].thread = "main"
               THEN /\ jobs' = WithJob(j, [jobs[j] EXCEPT !.pc = "escaped"])
                    /\ schedState' = "crashed"
               ELSE /\ jobs' = WithoutJob(j)
                    /\ UNCHANGED schedState
       ELSE /\ successful_runs' = NewSuccessful(jobs[j])
            /\ failed_runs' = NewFailed(jobs[j])
            /\ jobs' = WithJob(j, [jobs[j] EXCEPT !.pc = "logged"])
            /\ UNCHANGED schedState
    /\ UNCHANGED <<run_immediately, interval_minutes, now, next_run_time,
                   total_runs, signalled, lastReturn, outcomes>>

\* the immediate job_wrapper returns to start, which registers the interval
\* job and enters the scheduler's loop
JobReturnMain(j) ==
    /\ At(j, "logged")
    /\ jobs[j].thread = "main"
    /\ jobs' = WithoutJob(j)
    /\ lastReturn' = now
    /\ outcomes' = Append(outcomes, Outcome(jobs[j]))
    /\ schedState' = "loop"
    /\ next_run_time' = FirstFireTime(now, interval_minutes)
    /\ UNCHANGED <<run_immediately, interval_minutes, now, total_runs,
                   successful_runs, failed_runs, signalled>>

\* a timed job_wrapper returns to the executor
JobReturnWorker(j) ==
    /\ At(j, "logged")
    /\ jobs[j].thread = "worker"
    /\ jobs' = WithoutJob(j)
    /\ lastReturn' = now
    /\ outcomes' = Append(outcomes, Outcome(jobs[j]))
    /\ UNCHANGED <<schedState, run_immediately, interval_minutes, now,
                   next_run_time, total_runs, successful_runs, failed_runs,
                   signalled>>

\* ----------------------------------------------------- shutdown signal
\* KeyboardInterrupt while start sits in scheduler.start(): the except
\* branch calls scheduler.shutdown(), which waits for the running job
Shutdown ==
    /\ schedState = "loop"
    /\ ~signalled
    /\ signalled' = TRUE
    /\ schedState' = IF Instances = 0 THEN "stopped" ELSE "shutting"
    /\ UNCHANGED <<run_immediately, interval_minutes, now, next_run_time,
                   total_runs, successful_runs, failed_runs, jobs, lastReturn,
                   outcomes>>

\* scheduler.shutdown() returns once the executor has no running job
ShutdownComplete ==
    /\ schedState = "shutting"
    /\ Instances = 0
    /\ schedState' = "stopped"
    /\ UNCHANGED <<run_immediately, interval_minutes, now, next_run_time,
                   total_runs, successful_runs, failed_runs, jobs, signalled,
                   lastReturn, outcomes>>

\* KeyboardInterrupt while the main thread is inside the immediate
\* job_wrapper: neither except Exception catches it and the call in start is
\* outside start's try block, so it unwinds the cycle and ends the process
Interrupt(j) ==
    /\ schedState = "immediate"
    /\ ~signalled
    /\ j \in DOMAIN jobs
    /\ jobs[j].thread = "main"
    /\ signalled' = TRUE
    /\ jobs' = WithJob(j, [jobs[j] EXCEPT !.pc = "interrupted"])
    /\ schedState' = "crashed"
    /\ UNCHANGED <<run_immediately, interval_minutes, now, next_run_time,
                   total_runs, successful_runs, failed_runs, lastReturn,
                   outcomes>>

\* ------------------------------------------------------- specification
CycleIds == 1..MaxRuns

CycleStep(j) ==
    \/ CycleEnter(j)
    \/ InitPipeline(j)
    \/ InitUploader(j)
    \/ ChooseMain(j)
    \/ ChooseShort(j)
    \/ GenerateScript(j)
    \/ GenerateAudio(j)
    \/ CreateVideo(j)
    \/ GenerateThumbnail(j)
    \/ VideosInsert(j)
    \/ ThumbnailAttach(j)
    \/ ThumbnailSkip(j)
    \/ Handler(j)
    \/ Record(j)
    \/ JobReturnMain(j)
    \/ JobReturnWorker(j)

Next ==
    \/ StartImmediate
    \/ StartScheduled
    \/ AdvanceTime
    \/ TimerFire
    \/ TimerSkip
    \/ Shutdown
    \/ ShutdownComplete
    \/ \E j \in CycleIds : CycleStep(j)
    \/ \E j \in CycleIds : Interrupt(j)

Spec == Init /\ [][Next]_vars

\* what the process does by itself: everything but the arrival of a signal
Progress ==
    \/ StartImmediate
    \/ StartScheduled
    \/ AdvanceTime
    \/ TimerFire
    \/ TimerSkip
    \/ ShutdownComplete
    \/ \E j \in CycleIds : CycleStep(j)

\* the threads run and the clock does not stop while there is something to
\* do; only the shutdown signal is left to chance
FairSpec == Spec /\ WF_vars(Progress)

\* ---------------------------------------------------------- properties
Range(seq) == {seq[i] : i \in 1..Len(seq)}

\* run_automation_cycle is over for this job_wrapper execution
Finished(job) == job.pc \in {"returned", "logged"}

\* the steps of the cycle that raised, the swallowed thumbnail attach aside
FailedCalls(job) ==
    {c.call : c \in {x \in Range(job.calls) : ~x.ok /\ x.call # "attach"}}

\* the calls of the cycle, by name
CallNames(job) == {c.call : c \in Range(job.calls)}

\* C1: at most one execution of job_wrapper is in flight at any time, for
\* every interval and every cycle duration, with or without the immediate
\* first cycle.
C1_AtMostOneCycleInFlight == Cardinality(DOMAIN jobs) <= 1

\* a timed cycle has outlasted its interval and the fire time that fell into
\* it has been passed over
C1_OverrunWitness ==
    \E j \in DOMAIN jobs :
        /\ jobs[j].thread = "worker"
        /\ schedState = "loop"
        /\ now >= jobs[j].start + interval_minutes
        /\ next_run_time > now

\* C2: after N completed cycles total_runs = successful_runs + failed_runs
\* = N, and when cycle N+1 enters job_wrapper the outcomes of cycles 1..N
\* are already counted.
C2_CountsMatchCompleted ==
    /\ DOMAIN jobs = {} =>
          /\ total_runs = Len(outcomes)
          /\ successful_runs + failed_runs = Len(outcomes)
    /\ \A j \in DOMAIN jobs :
          /\ jobs[j].base = j - 1
          /\ Len(outcomes) = j - 1

\* two cycles are over, one with a success and one with an exception caught
\* by job_wrapper, and the third has just started
C2_ThirdCycleWitness ==
    /\ Len(outcomes) = 2
    /\ "success" \in Range(outcomes)
    /\ "raised" \in Range(outcomes)
    /\ \E j \in DOMAIN jobs : jobs[j].pc = "banner"

\* C3: whatever fails among component initialisation, the four stages and
\* the upload, run_automation_cycle returns a result, and the result is
\* 'failed' with the cause as error when one of these failed; no exception
\* of a step leaves run_automation_cycle.
C3_CycleRunnerNeverRaises ==
    \A j \in DOMAIN jobs :
        LET job == jobs[j]
        IN /\ job.raised => job.calls = <<>>
           /\ Finished(job) /\ ~job.raised =>
                 /\ job.result.status \in {"success", "failed"}
                 /\ FailedCalls(job) # {} =>
                       /\ job.result.status = "failed"
                       /\ job.result.error \in FailedCalls(job)

\* the upload call raised and the cycle runner returned a failed result
C3_UploadFailureWitness ==
    \E j \in DOMAIN jobs :
        /\ Finished(jobs[j])
        /\ [call |-> "insert", ok |-> FALSE] \in Range(jobs[j].calls)
        /\ jobs[j].result = FailedResult("insert")

\* C4: a result is a success exactly when it carries a non-empty video id;
\* a success carries the id and URL the upload call returned, a failed
\* result carries an error and neither id nor URL.
C4_SuccessIffPublished ==
    \A j \in DOMAIN jobs :
        LET job == jobs[j]
            r == job.result
        IN r # NoResult =>
              /\ IsSuccess(r) <=>
                    ("video_id" \in DOMAIN r /\ r.video_id \notin {"", "none"})
              /\ IsSuccess(r) =>
                    /\ [call |-> "insert", ok |-> TRUE] \in Range(job.calls)
                    /\ r.video_id = job.video_id
                    /\ r.video_url = VideoUrl(job.video_id)
              /\ ~IsSuccess(r) =>
                    /\ r.status = "failed"
                    /\ "error" \in DOMAIN r
                    /\ r.error # "none"
                    /\ "video_id" \notin DOMAIN r
                    /\ "video_url" \notin DOMAIN r

\* a cycle has returned a success result and job_wrapper has counted it
C4_SuccessWitness ==
    \E j \in DOMAIN jobs :
        /\ jobs[j].pc = "logged"
        /\ IsSuccess(jobs[j].result)
        /\ jobs[j].result.video_id \in VideoIds

\* C5: every cycle that follows another starts no earlier than
\* interval_minutes after the earlier one returned.
C5_NextStartIntervalAfterReturn ==
    \A j \in DOMAIN jobs :
        jobs[j].prev_end >= 0 =>
            jobs[j].start >= jobs[j].prev_end + interval_minutes

\* C6: a shutdown signal interrupts no cycle: when the process has ended,
\* every cycle that started has run to its end and is counted.
C6_NoCycleInterrupted ==
    /\ \A j \in DOMAIN jobs : jobs[j].pc # "interrupted"
    /\ schedState \in {"stopped", "crashed"} =>
          total_runs = successful_runs + failed_runs

\* every cycle so far ended in a failed result or in an exception
AllFailed ==
    /\ Len(outcomes) >= 1
    /\ \A i \in 1..Len(outcomes) : outcomes[i] \in {"failed", "raised"}

\* C7: without a shutdown signal the scheduler never stops, and after any
\* number of cycles that all failed (a failed result or an exception) another
\* cycle starts unless a shutdown signal arrives first (as far as the clock
\* and the cycle count of the model reach).
C7_SurvivesFailures ==
    /\ [](~signalled => schedState \notin {"stopped", "crashed"})
    /\ (AllFailed /\ DOMAIN jobs = {} /\ ~signalled /\ schedState = "loop"
           /\ next_run_time <= MaxTime /\ total_runs < MaxRuns)
          ~> (DOMAIN jobs # {} \/ signalled)

\* two cycles failed, one of them by an exception, and a third one started
\* with no shutdown signal received
C7_ThirdCycleWitness ==
    /\ AllFailed
    /\ Len(outcomes) = 2
    /\ "raised" \in Range(outcomes)
    /\ ~signalled
    /\ total_runs = 3
    /\ DOMAIN jobs = {3}

\* C8: with run_immediately the first cycle starts at the scheduler's start;
\* without it no cycle starts before the first interval has elapsed and the
\* first cycle starts when it has.
C8_FirstCycleStart ==
    /\ 1 \in DOMAIN jobs =>
          jobs[1].start = IF run_immediately THEN 0 ELSE interval_minutes
    /\ run_immediately /\ schedState # "init" => total_runs >= 1
    /\ ~run_immediately /\ now < interval_minutes => total_runs = 0
    /\ ~run_immediately /\ now > interval_minutes => total_runs >= 1

\* run_immediately is false and the first cycle has started at the end of
\* an interval of two minutes
C8_ScheduledFirstWitness ==
    /\ ~run_immediately
    /\ interval_minutes = 2
    /\ 1 \in DOMAIN jobs
    /\ jobs[1].start = 2

\* C9: once the video insert call has succeeded, the cycle cannot fail any
\* more: upload_video returns the id and URL and the result is a success,
\* whether the thumbnail attach succeeds, fails or is skipped.
C9_ThumbnailFailureKeepsSuccess ==
    \A j \in DOMAIN jobs :
        LET job == jobs[j]
        IN job.video_id # "none" =>
              /\ job.error = "none"
              /\ job.pc \in {"thumb", "returned", "logged", "interrupted"}
              /\ Finished(job) =>
                    /\ IsSuccess(job.result)
                    /\ job.result.video_id = job.video_id
                    /\ job.result.video_url = VideoUrl(job.video_id)

\* the thumbnail attach failed and the cycle result is a success
C9_AttachFailedWitness ==
    \E j \in DOMAIN jobs :
        /\ jobs[j].attach = "failed"
        /\ [call |-> "attach", ok |-> FALSE] \in Range(jobs[j].calls)
        /\ Finished(jobs[j])
        /\ IsSuccess(jobs[j].result)

\* C10: when the text generator raises in the first cycle, no audio,
\* assembly, thumbnail or upload call is made in that cycle, the result is
\* 'failed' with the cause as error and no video id, and the counters become
\* total 1, successful 0, failed 1.
C10_ScriptFailureFirstCycle ==
    (1 \in DOMAIN jobs /\ [call |-> "script", ok |-> FALSE] \in Range(jobs[1].calls))
    => LET job == jobs[1]
       IN /\ CallNames(job) \cap {"audio", "video", "thumbnail", "video_exists",
                                   "insert", "attach"} = {}
          /\ job.pc \in {"handler", "returned", "logged", "interrupted"}
          /\ Finished(job) => job.result = FailedResult("script")
          /\ job.pc = "logged" =>
                /\ total_runs = 1
                /\ successful_runs = 0
                /\ failed_runs = 1

\* the first cycle failed at the script stage and has been counted
C10_ScriptFailureWitness ==
    /\ 1 \in DOMAIN jobs
    /\ jobs[1].pc = "logged"
    /\ [call |-> "script", ok |-> FALSE] \in Range(jobs[1].calls)
    /\ failed_runs = 1

\* the collaborators a cycle calls
Collaborators == {"script", "audio", "video", "thumbnail", "insert", "attach"}

\* how many times the cycle has called a collaborator
CallCount(job, what) ==
    Cardinality({i \in 1..Len(job.calls) : job.calls[i].call = what})

\* C11: no retries within a cycle: each collaborator (text generator, audio
\* synthesizer, media assembler, thumbnail generator, video upload, thumbnail
\* attach) is called at most once in a cycle, whatever the calls return.
C11_NoRetries ==
    \A j \in DOMAIN jobs :
        \A what \in Collaborators : CallCount(jobs[j], what) <= 1

\* a cycle is over whose thumbnail stage raised after three stages went well
C11_FailedStageWitness ==
    \E j \in DOMAIN jobs :
        /\ Finished(jobs[j])
        /\ [call |-> "thumbnail", ok |-> FALSE] \in Range(jobs[j].calls)
        /\ \A what \in {"script", "audio", "video", "thumbnail"} :
              CallCount(jobs[j], what) = 1

\* the fallible steps of a cycle in the order of the code
StageOrder ==
    <<"init_pipeline", "init_uploader", "script", "audio", "video", "thumbnail",
      "video_exists", "insert", "attach">>

Stages == {"script", "audio", "video", "thumbnail"}

\* C13: the stages of a cycle run one at a time in the order script, audio,
\* video assembly, thumbnail, then upload: a stage is invoked only after
\* every earlier one returned successfully, and once a stage has failed no
\* later stage and no upload call is issued and nothing of the artifact is
\* returned.
C13_StagesInOrder ==
    \A j \in DOMAIN jobs :
        LET job == jobs[j]
            n == Len(job.calls)
        IN /\ n <= Len(StageOrder)
           /\ \A i \in 1..n : job.calls[i].call = StageOrder[i]
           /\ \A i \in 1..(n - 1) : job.calls[i].ok
           /\ FailedCalls(job) \cap Stages # {} =>
                 /\ job.calls[n].call \in Stages
                 /\ job.pc \in {"handler", "returned", "logged", "interrupted"}
                 /\ job.video_id = "none"
                 /\ Finished(job) => job.result = FailedResult(job.calls[n].call)

\* the assembly stage raised after the script and the audio went well, and
\* the cycle is over
C13_AssemblyFailedWitness ==
    \E j \in DOMAIN jobs :
        /\ Finished(jobs[j])
        /\ Len(jobs[j].calls) = 5
        /\ jobs[j].calls[5] = [call |-> "video", ok |-> FALSE]
        /\ jobs[j].result = FailedResult("video")

\* the cycle has started and run_automation_cycle has neither returned nor
\* raised yet
InCycle(job) == job.pc \notin {"returned", "logged", "interrupted", "escaped"}

C15_FailureRecorded ==
    [][ \A j \in DOMAIN jobs :
           ( /\ jobs[j].pc = "returned"
             /\ (j \notin DOMAIN jobs' \/ jobs'[j].pc # "returned")
             /\ signalled' = signalled
             /\ \/ jobs[j].raised
                \/ jobs[j].result = NoResult
                \/ jobs[j].result.status # "success" )
           => /\ failed_runs' = failed_runs + 1
              /\ successful_runs' = successful_runs
              /\ total_runs' = total_runs
              /\ j \in DOMAIN jobs'
              /\ jobs'[j].pc = "logged"
              /\ schedState' = schedState
      ]_vars

\* the cycle runner raised in the first cycle and job_wrapper counted a
\* failure
C15_RaisedCountedWitness ==
    /\ 1 \in DOMAIN jobs
    /\ jobs[1].pc = "logged"
    /\ jobs[1].raised
    /\ failed_runs = 1
    /\ successful_runs = 0

\* C16: class and duration are chosen once per cycle, before any stage, and
\* stay as chosen: 'main' has a duration of 2..5 minutes, 'short' of 1; the
\* script stage and the assembly stage are given the chosen class; for
\* 'main' the lower word-count target of the script prompt is 150 times the
\* chosen duration.
C16_ClassAndDurationFixed ==
    /\ [](\A j \in DOMAIN jobs :
            LET job == jobs[j]
            IN /\ job.video_type \in {"none", "main", "short"}
               /\ job.video_type = "none" =>
                     /\ job.duration = 0
                     /\ CallNames(job) \cap Stages = {}
               /\ job.video_type = "main" => job.duration \in 2..5
               /\ job.video_type = "short" => job.duration = 1
               /\ "script" \in CallNames(job) =>
                     /\ job.script_type = job.video_type
                     /\ job.script_duration = job.duration
                     /\ job.video_type = "main" =>
                           job.word_count = 150 * job.duration
               /\ "video" \in CallNames(job) =>
                     /\ job.assembly_type = job.video_type
                     /\ job.assembly_type = job.script_type)
    /\ [][ \A j \in DOMAIN jobs \cap DOMAIN jobs' :
              jobs[j].video_type # "none" =>
                 /\ jobs'[j].video_type = jobs[j].video_type
                 /\ jobs'[j].duration = jobs[j].duration
         ]_vars

\* a short cycle has called its assembly stage with the class 'short'
C16_ShortAssemblyWitness ==
    \E j \in DOMAIN jobs :
        /\ jobs[j].video_type = "short"
        /\ jobs[j].duration = 1
        /\ jobs[j].assembly_type = "short"
        /\ "video" \in CallNames(jobs[j])

\* C17: the thumbnail attach call is issued only after the video insert call
\* of the same upload returned a video id, only when the thumbnail file
\* exists, and for exactly that video id; after a failed insert no attach is
\* attempted.
C17_AttachAfterInsert ==
    \A j \in DOMAIN jobs :
        LET job == jobs[j]
            n == Len(job.calls)
        IN /\ "attach" \in CallNames(job) =>
                 /\ n >= 2
                 /\ job.calls[n].call = "attach"
                 /\ job.calls[n - 1] = [call |-> "insert", ok |-> TRUE]
                 /\ job.video_id \in VideoIds
                 /\ job.attach_target = job.video_id
                 /\ job.thumb_exists = "yes"
           /\ ([call |-> "insert", ok |-> FALSE] \in Range(job.calls)
                  \/ job.thumb_exists = "no") =>
                 /\ "attach" \notin CallNames(job)
                 /\ job.attach_target = "none"

\* the attach call went through for the id the insert call returned
C17_AttachedWitness ==
    \E j \in DOMAIN jobs :
        /\ jobs[j].attach = "ok"
        /\ jobs[j].attach_target \in VideoIds
        /\ [call |-> "attach", ok |-> TRUE] \in Range(jobs[j].calls)

\* a cycle is in flight: job_wrapper has been entered, is still running and
\* has not counted the outcome yet
InFlight(job) == job.pc \notin {"logged", "interrupted", "escaped"}

\* C18: total_runs - (successful_runs + failed_runs) is 0 or 1 in every
\* reachable state, and it is 1 exactly while a cycle is in flight, between
\* job_wrapper's entry and its counting of the outcome; no counter ever
\* decreases.
C18_DifferenceTracksFlight ==
    /\ [](LET diff == total_runs - (successful_runs + failed_runs)
          IN /\ diff \in {0, 1}
             /\ diff = 1 <=> \E j \in DOMAIN jobs : InFlight(jobs[j]))
    /\ [][ /\ total_runs' >= total_runs
           /\ successful_runs' >= successful_runs
           /\ failed_runs' >= failed_runs ]_vars

\* C19: a fire time that comes while a cycle is running is dropped: that
\* step starts no cycle and changes no counter, and the timer moves on to the
\* next fire time of its fixed grid; a timed cycle starts only in a step in
\* which a fire time is due and no cycle is running, never at the return of
\* the cycle before it.
C19_BusyTickDropped ==
    [][ /\ (TickDue /\ Instances >= MaxInstances
               /\ next_run_time' # next_run_time) =>
              /\ jobs' = jobs
              /\ UNCHANGED <<total_runs, successful_runs, failed_runs, now>>
              /\ next_run_time' = next_run_time + interval_minutes
        /\ (schedState # "init" /\ DOMAIN jobs' \ DOMAIN jobs # {}) =>
              /\ TickDue
              /\ DOMAIN jobs = {}
              /\ next_run_time' = next_run_time + interval_minutes
              /\ \A j \in DOMAIN jobs' : jobs'[j].start = next_run_time
        /\ (DOMAIN jobs # {} /\ DOMAIN jobs' = {}) =>
              /\ total_runs' = total_runs
              /\ (schedState = "loop" => next_run_time' = next_run_time)
      ]_vars

\* a fire time fell into the first timed cycle and was dropped, and the
\* second cycle started at the fire time after it
C19_LaterTickWitness ==
    /\ ~run_immediately
    /\ interval_minutes = 1
    /\ total_runs = 2
    /\ 2 \in DOMAIN jobs
    /\ jobs[2].prev_end = 2
    /\ jobs[2].start = 3
    /\ next_run_time = 4

\* C20: with run_immediately the interval job is registered only after the
\* immediate first cycle has returned and has been counted: while the first
\* cycle runs there is no fire time and no other cycle, and the first timed
\* cycle starts one interval after the first cycle completed.
C20_RegisteredAfterFirstCycle ==
    run_immediately =>
        /\ (\E j \in DOMAIN jobs : jobs[j].thread = "main") =>
              /\ next_run_time = -1
              /\ DOMAIN jobs = {1}
              /\ total_runs = 1
        /\ next_run_time # -1 =>
              /\ Len(outcomes) >= 1
              /\ successful_runs + failed_runs >= 1
              /\ lastReturn >= 0
        /\ (schedState = "loop" /\ total_runs = 1) =>
              next_run_time = lastReturn + interval_minutes
        /\ 2 \in DOMAIN jobs =>
              jobs[2].start = jobs[2].prev_end + interval_minutes

\* the immediate first cycle ended at minute 1 and the first timed cycle has
\* started two minutes later, the interval being two minutes
C20_FirstTimedWitness ==
    /\ run_immediately
    /\ interval_minutes = 2
    /\ 2 \in DOMAIN jobs
    /\ jobs[2].thread = "worker"
    /\ jobs[2].prev_end = 1
    /\ jobs[2].start = 3

\* the calls of a cycle that generate or publish
GenerationAndUpload ==
    {"script", "audio", "video", "thumbnail", "video_exists", "insert", "attach"}

\* C21: the uploader is initialised before any generation stage of the
\* cycle: a stage or upload call is made only after YouTubeUploader()
\* returned, and when its initialisation raises, the class is never chosen,
\* no script, audio, assembly, thumbnail or upload call is made in that cycle
\* and the cycle result is 'failed' with the cause as error.
C21_UploaderBeforeGeneration ==
    \A j \in DOMAIN jobs :
        LET job == jobs[j]
            n == Len(job.calls)
        IN /\ CallNames(job) \cap GenerationAndUpload # {} =>
                 /\ n >= 3
                 /\ job.calls[2] = [call |-> "init_uploader", ok |-> TRUE]
                 /\ \A i \in 1..2 : job.calls[i].call \notin GenerationAndUpload
           /\ [call |-> "init_uploader", ok |-> FALSE] \in Range(job.calls) =>
                 /\ CallNames(job) \cap GenerationAndUpload = {}
                 /\ job.video_type = "none"
                 /\ job.video_id = "none"
                 /\ job.pc \in {"handler", "returned", "logged", "interrupted"}
                 /\ Finished(job) =>
                       /\ ~job.raised
                       /\ job.result = FailedResult("init_uploader")

\* the uploader failed to initialise and the cycle has returned its failed
\* result and has been counted as a failure
C21_InitFailedWitness ==
    \E j \in DOMAIN jobs :
        /\ jobs[j].pc = "logged"
        /\ jobs[j].calls = <<[call |-> "init_pipeline", ok |-> TRUE],
                             [call |-> "init_uploader", ok |-> FALSE]>>
        /\ jobs[j].result = FailedResult("init_uploader")
        /\ failed_runs >= 1

====
